---------------------------- MODULE Spec2Model ----------------------------
(***************************************************************************)
(* A model of the CTO Tenancy Identity Synchronizer (cto-identity-sync).   *)
(*                                                                         *)
(* The program is one sequential Go process.  Its state is the run mode,   *)
(* the bearer token, the roster, the loop counters and the tallies; the    *)
(* downstream systems (IDCS, the VBCS apps ECAL and STS, OCE, the roster   *)
(* feed) are the environment, which answers every HTTP request with a      *)
(* transport error or with a response of some status and body.             *)
(*                                                                         *)
(* Go strings are sequences of symbols; a symbol is a character or a       *)
(* literal the program only ever handles whole ("ECAL", "cto-test").       *)
(* A Go error is Nil or the tag of the place that made it.                 *)
(***************************************************************************)
EXTENDS Integers, Sequences, FiniteSets, TLC

\* ------------------------------------------------------------------ bounds

\* longest roster the feed returns
MaxRoster == 2

\* longest listing the ECAL app returns in clean mode
MaxListing == 2

\* how many token refreshes a long roster takes the first loop through
MaxRefreshes == 2

\* longest manager field drawn symbol by symbol
MaxDnLen == 3

\* ------------------------------------------------------- program constants

ADD == "--add"

DELETE == "--delete"

CLEAN == "--clean"

LIST == "--list"

\* i%1000 in the first loop of main
TokenRefreshEvery == 1000

\* the nil error
Nil == "nil"

\* ----------------------------------------------------------------- strings

\* strings.ToLower on one symbol
LowerSym(c) ==
    CASE c = "C" -> "c"
      [] c = "N" -> "n"
      [] c = "J" -> "j"
      [] c = "D" -> "d"
      [] c = "Y" -> "y"
      [] OTHER -> c

\* strings.ToUpper on one symbol
UpperSym(c) ==
    CASE c = "c" -> "C"
      [] c = "n" -> "N"
      [] c = "j" -> "J"
      [] c = "d" -> "D"
      [] c = "y" -> "Y"
      [] OTHER -> c

ToLower(s) == [k \in 1..Len(s) |-> LowerSym(s[k])]

ToUpper(s) == [k \in 1..Len(s) |-> UpperSym(s[k])]

\* strings.ReplaceAll(s, old, new) for a one-symbol old and a string new
RECURSIVE ReplaceAll(_, _, _)
ReplaceAll(s, old, new) ==
    IF s = <<>> THEN <<>>
    ELSE (IF Head(s) = old THEN new ELSE <<Head(s)>>) \o ReplaceAll(Tail(s), old, new)

\* strings.HasPrefix
HasPrefix(s, prefix) ==
    /\ Len(prefix) <= Len(s)
    /\ SubSeq(s, 1, Len(prefix)) = prefix

\* strings.Contains
Contains(s, substr) ==
    \E k \in 0..(Len(s) - Len(substr)) : SubSeq(s, k + 1, k + Len(substr)) = substr

\* strings.Split(s, sep) for a one-symbol sep: always at least one component
RECURSIVE SplitFrom(_, _, _)
SplitFrom(s, sep, cur) ==
    IF s = <<>> THEN <<cur>>
    ELSE IF Head(s) = sep THEN <<cur>> \o SplitFrom(Tail(s), sep, <<>>)
    ELSE SplitFrom(Tail(s), sep, Append(cur, Head(s)))

Split(s, sep) == SplitFrom(s, sep, <<>>)

\* "@oracle.com", the suffix convertManagerDnToEmail appends
OracleDomain == <<"@", "oracle.com">>

\* convertManagerDnToEmail: the email, or a panic (index out of range on
\* cnComponents[1] when the first component holds no "=")
convertManagerDnToEmail(managerDN) ==
    IF Len(managerDN) < 1 THEN [panic |-> FALSE, value |-> <<>>]
    ELSE LET dnComponents == Split(managerDN, ",")
         IN  IF Len(dnComponents) < 1 THEN [panic |-> FALSE, value |-> <<>>]
             ELSE LET email == ToLower(ReplaceAll(dnComponents[1], "_", <<".">>))
                      cnComponents == Split(email, "=")
                  IN  IF Len(cnComponents) < 2
                      THEN [panic |-> TRUE, value |-> <<>>]
                      ELSE [panic |-> FALSE, value |-> cnComponents[2] \o OracleDomain]

\* ------------------------------------------------------------ configuration

\* config.UserGroupNames, a comma-delimited list
UserGroupNames == <<"GU1", ",", "GU2">>

\* config.ManagerGroupNames, a comma-delimited list
ManagerGroupNames == <<"GM1", ",", "GM2">>

\* config.StsUserRoleCode / config.StsManagerRoleCode
StsUserRoleCode == "stsUser"

StsManagerRoleCode == "stsManager"

\* ------------------------------------------------------------ HTTP answers

\* client.Do returned an error: no response
Transport == [err |-> TRUE, nil |-> TRUE, status |-> 0, id |-> "", errorKey |-> <<>>]

\* client.Do returned a response with this status; id is the identifier the
\* body holds at the path the caller reads ("" when absent), errorKey the
\* body's errorKey
Http(status, id, errorKey) ==
    [err |-> FALSE, nil |-> FALSE, status |-> status, id |-> id, errorKey |-> errorKey]

\* GET /admin/v1/Users?filter=...
IdcsUserLookupResponses ==
    {Transport, Http(500, "", <<>>), Http(200, "uid", <<>>), Http(200, "", <<>>)}

\* POST /admin/v1/Users
IdcsCreateResponses ==
    {Transport, Http(500, "", <<>>), Http(201, "uid", <<>>), Http(409, "", <<>>)}

\* GET /admin/v1/Groups?filter=...
IdcsGroupLookupResponses ==
    {Transport, Http(500, "", <<>>), Http(200, "gid", <<>>), Http(200, "", <<>>)}

\* PATCH /admin/v1/Groups/<id>
IdcsGroupPatchResponses == {Transport, Http(500, "", <<>>), Http(200, "", <<>>)}

\* DELETE /admin/v1/Users/<id>?forceDelete=true
IdcsDeleteResponses ==
    {Transport, Http(500, "", <<>>), Http(404, "", <<>>), Http(200, "", <<>>),
     Http(204, "", <<>>)}

\* GET <app endpoint>?q=userEmail='...'
VbcsLookupResponses ==
    {Transport, Http(500, "", <<>>), Http(200, "vid", <<>>), Http(200, "", <<>>)}

\* PATCH <app endpoint>/<id>
VbcsUpdateResponses ==
    {Transport, Http(500, "", <<>>), Http(200, "", <<>>), Http(409, "", <<>>)}

\* POST <app endpoint>
VbcsCreateResponses ==
    {Transport, Http(500, "", <<>>), Http(201, "", <<>>), Http(200, "", <<>>),
     Http(409, "", <<>>)}

\* DELETE <app endpoint>/<id>
VbcsDeleteResponses ==
    {Transport, Http(500, "", <<>>), Http(404, "", <<>>), Http(200, "", <<>>),
     Http(204, "", <<>>)}

\* POST /documents/integration/ecal?IdcService=SYNC_USERS_AND_ATTRIBUTES
OceSyncResponses == {Transport, Http(500, "", <<>>), Http(200, "", <<>>)}

\* GET /documents/api/1.2/users/search/items?email=...
OceLookupResponses ==
    {Transport, Http(500, "", <<>>), Http(200, "oid", <<>>), Http(200, "", <<>>)}

\* POST /documents/api/1.2/shares/<folder>
OceShareResponses ==
    {Transport, Http(200, "", <<>>),
     Http(400, "", <<"!csFolderAlreadyShared", "!detail">>),
     Http(400, "", <<"!csOther">>), Http(500, "", <<>>)}

\* DELETE /documents/api/1.2/shares/<folder>/user
OceUnshareResponses ==
    {Transport, Http(200, "", <<>>),
     Http(400, "", <<"!csUserHasNotBeenShared", "!detail">>),
     Http(400, "", <<"!csOther">>), Http(500, "", <<>>)}

\* err != nil || res == nil || res.StatusCode is none of ok
HttpFailed(r, ok) == r.err \/ r.nil \/ r.status \notin ok

\* the value of the Go variable err after client.Do
GoErr(r) == IF r.err THEN "transport" ELSE Nil

\* one request the program issued and the answer it got
Call(sys, op, who, arg, tok, r) ==
    [sys |-> sys, op |-> op, who |-> who, arg |-> arg, tok |-> tok, r |-> r]

\* what a handler did: the error it returned, whether it panicked, its calls
Outcome(err, panic, calls) == [err |-> err, panic |-> panic, calls |-> calls]


\* ---------------------------------------------------------------- adapters

\* the result of addUserToIDCS: the id it returns, the error, panic, calls
IdOutcome(id, err, panic, calls) ==
    [id |-> id, err |-> err, panic |-> panic, calls |-> calls]

\* IdcsCreate with the 409 of the POST returned as an error
IdcsCreateConflictIsError(tok, person, c1) ==
    { LET c2 == Call("IDCS", "createUser", person.UserID, <<>>, tok, r2)
      IN  IF HttpFailed(r2, {201})
          THEN IF r2.nil
               THEN IdOutcome("", Nil, TRUE, <<c1, c2>>)
               ELSE IF r2.status # 409
                    THEN IdOutcome("", GoErr(r2), FALSE, <<c1, c2>>)
                    ELSE IdOutcome("", "error", FALSE, <<c1, c2>>)
          ELSE IdOutcome(r2.id, Nil, FALSE, <<c1, c2>>)
      : r2 \in IdcsCreateResponses }

\* addUserToIDCS after the lookup found no id: the POST and what follows.
\* A failed POST dereferences res to read the status: with no response
\* (res == nil) the process panics; a status other than 409 returns the
\* variable err, which is nil when a response arrived.
IdcsCreate(tok, person, c1) ==
    { LET c2 == Call("IDCS", "createUser", person.UserID, <<>>, tok, r2)
      IN  IF HttpFailed(r2, {201})
          THEN IF r2.nil
               THEN IdOutcome("", Nil, TRUE, <<c1, c2>>)
               ELSE IF r2.status # 409
                    THEN IdOutcome("", GoErr(r2), FALSE, <<c1, c2>>)
                    ELSE IdOutcome(r2.id, Nil, FALSE, <<c1, c2>>)
          ELSE IdOutcome(r2.id, Nil, FALSE, <<c1, c2>>)
      : r2 \in IdcsCreateResponses }

\* addUserToIDCS: look the user up, create the user when no id came back
addUserToIDCS(tok, person) ==
    UNION { LET c1 == Call("IDCS", "lookupUser", person.UserID, <<>>, tok, r1)
            IN  IF HttpFailed(r1, {200})
                THEN {IdOutcome("", "error", FALSE, <<c1>>)}
                ELSE IF r1.id = ""
                     THEN IdcsCreate(tok, person, c1)
                     ELSE {IdOutcome(r1.id, Nil, FALSE, <<c1>>)}
            : r1 \in IdcsUserLookupResponses }

\* the group list addUserToIDCSGroups walks
\* GroupListFor with the two lists the wrong way round
GroupListForSwapped(person) ==
    IF person.NumberOfDirects > 0 THEN UserGroupNames ELSE ManagerGroupNames

GroupListFor(person) ==
    IF person.NumberOfDirects > 0 THEN ManagerGroupNames ELSE UserGroupNames

\* the body of the loop of addUserToIDCSGroups from group k on
RECURSIVE GroupLoop(_, _, _, _, _)
GroupLoop(tok, person, UserID, names, k) ==
    IF k > Len(names) THEN {Outcome(Nil, FALSE, <<>>)}
    ELSE UNION {
        LET c1 == Call("IDCS", "lookupGroup", person.UserID, names[k], tok, r1)
        IN  IF HttpFailed(r1, {200}) \/ r1.id = ""
            THEN {Outcome("error", FALSE, <<c1>>)}
            ELSE UNION {
                LET c2 == Call("IDCS", "patchGroup", person.UserID, names[k], tok, r2)
                IN  IF HttpFailed(r2, {200})
                    THEN {Outcome("error", FALSE, <<c1, c2>>)}
                    ELSE { Outcome(rest.err, rest.panic, <<c1, c2>> \o rest.calls)
                           : rest \in GroupLoop(tok, person, UserID, names, k + 1) }
                : r2 \in IdcsGroupPatchResponses }
        : r1 \in IdcsGroupLookupResponses }

\* addUserToIDCSGroups
addUserToIDCSGroups(tok, person, UserID) ==
    GroupLoop(tok, person, UserID, Split(GroupListFor(person), ","), 1)

\* the role code addUserToVBCSApp puts in the payload
\* RoleFor that gives everyone the individual role
RoleForUserOnly(person, userRole, managerRole) == userRole

RoleFor(person, userRole, managerRole) ==
    IF person.NumberOfDirects > 0 THEN managerRole ELSE userRole

\* addUserToVBCSApp: look the user up by email, PATCH when an id came back,
\* POST otherwise.  Each failure returns the variable err, which is nil when
\* a response arrived.
addUserToVBCSApp(appName, userRole, managerRole, person) ==
    UNION {
        LET c1 == Call(appName, "lookupUser", person.UserID, <<>>, 0, r1)
        IN  IF HttpFailed(r1, {200})
            THEN {Outcome(GoErr(r1), FALSE, <<c1>>)}
            ELSE IF r1.id # ""
                 THEN { LET c2 == Call(appName, "updateUser", person.UserID,
                                       <<RoleFor(person, userRole, managerRole)>>, 0, r2)
                        IN  IF HttpFailed(r2, {200, 409})
                            THEN Outcome(GoErr(r2), FALSE, <<c1, c2>>)
                            ELSE Outcome(Nil, FALSE, <<c1, c2>>)
                        : r2 \in VbcsUpdateResponses }
                 ELSE { LET c2 == Call(appName, "createUser", person.UserID,
                                       <<RoleFor(person, userRole, managerRole)>>, 0, r2)
                        IN  IF HttpFailed(r2, {201, 200})
                            THEN Outcome(GoErr(r2), FALSE, <<c1, c2>>)
                            ELSE Outcome(Nil, FALSE, <<c1, c2>>)
                        : r2 \in VbcsCreateResponses }
        : r1 \in VbcsLookupResponses }

\* deleteUserFromVBCSApp: look the user up, fail when absent, DELETE
deleteUserFromVBCSApp(appName, person) ==
    UNION {
        LET c1 == Call(appName, "lookupUser", person.UserID, <<>>, 0, r1)
        IN  IF HttpFailed(r1, {200}) \/ r1.id = ""
            THEN {Outcome("error", FALSE, <<c1>>)}
            ELSE { LET c2 == Call(appName, "deleteUser", person.UserID, <<>>, 0, r2)
                   IN  IF HttpFailed(r2, {200, 204})
                       THEN Outcome("error", FALSE, <<c1, c2>>)
                       ELSE Outcome(Nil, FALSE, <<c1, c2>>)
                   : r2 \in VbcsDeleteResponses }
        : r1 \in VbcsLookupResponses }

\* syncOCEProfileData: the error it returns is the variable err
syncOCEProfileData ==
    { LET c == Call("OCE", "sync", <<>>, <<>>, 0, r)
      IN  IF HttpFailed(r, {200})
          THEN Outcome(GoErr(r), FALSE, <<c>>)
          ELSE Outcome(Nil, FALSE, <<c>>)
      : r \in OceSyncResponses }

\* ShareResult with no errorKey squelched: every status but 200 is an error
ShareResultNoSquelch(r, squelch) ==
    IF r.err \/ r.nil THEN GoErr(r)
    ELSE IF r.status # 200 THEN "error"
    ELSE Nil

\* the answer to a share or unshare request, as the error returned: a
\* status other than 200 is an error unless the errorKey starts with squelch
ShareResult(r, squelch) ==
    IF r.err \/ r.nil THEN GoErr(r)
    ELSE IF r.status # 200 /\ ~HasPrefix(r.errorKey, <<squelch>>) THEN "error"
    ELSE Nil

\* addUserToOCE: find the OCE user by email, fail when there is none, share
addUserToOCE(person) ==
    UNION {
        LET c1 == Call("OCE", "lookupUser", person.UserID, <<>>, 0, r1)
        IN  IF HttpFailed(r1, {200})
            THEN {Outcome(GoErr(r1), FALSE, <<c1>>)}
            ELSE IF r1.id = ""
                 THEN {Outcome("error", FALSE, <<c1>>)}
                 ELSE { Outcome(ShareResult(r2, "!csFolderAlreadyShared"), FALSE,
                                <<c1, Call("OCE", "share", person.UserID, <<r1.id>>, 0, r2)>>)
                        : r2 \in OceShareResponses }
        : r1 \in OceLookupResponses }

\* deleteUserFromOCE: find the OCE user by email, then unshare with whatever
\* id came back (the empty id too)
deleteUserFromOCE(person) ==
    UNION {
        LET c1 == Call("OCE", "lookupUser", person.UserID, <<>>, 0, r1)
        IN  IF HttpFailed(r1, {200})
            THEN {Outcome(GoErr(r1), FALSE, <<c1>>)}
            ELSE { Outcome(ShareResult(r2, "!csUserHasNotBeenShared"), FALSE,
                           <<c1, Call("OCE", "unshare", person.UserID, <<r1.id>>, 0, r2)>>)
                   : r2 \in OceUnshareResponses }
        : r1 \in OceLookupResponses }

\* addOCEUser / deleteOCEUser hand the adapter's error on
addOCEUser(person) == addUserToOCE(person)

deleteOCEUser(person) == deleteUserFromOCE(person)

\* Then with the two steps the other way round: g first, f after it
ThenReversed(fs, gs) ==
    UNION { IF g.panic \/ g.err # Nil THEN {g}
            ELSE { Outcome(f.err, f.panic, g.calls \o f.calls) : f \in fs }
            : g \in gs }

\* g after f: f's outcome when it failed or panicked, else both in a row
Then(fs, gs) ==
    UNION { IF f.panic \/ f.err # Nil THEN {f}
            ELSE { Outcome(g.err, g.panic, f.calls \o g.calls) : g \in gs }
            : f \in fs }

\* EcalTag holding the tag of the other app
EcalTagOfSts == <<"STS">>

\* "ECAL" and "STS", the tags strings.Contains looks for in person.AppMap
EcalTag == <<"ECAL">>

StsTag == <<"STS">>

\* addIDCSVBCSUser: manager DN to email, IDCS upsert, groups when an id came
\* back, then the STS app when tagged (the ECAL block is commented out)
addIDCSVBCSUser(tok, person) ==
    LET conv == convertManagerDnToEmail(person.Manager)
        p == [person EXCEPT !.Manager = conv.value]
        sts == IF Contains(p.AppMap, StsTag)
               THEN addUserToVBCSApp("STS", StsUserRoleCode, StsManagerRoleCode, p)
               ELSE {Outcome(Nil, FALSE, <<>>)}
    IN  IF conv.panic THEN {Outcome(Nil, TRUE, <<>>)}
        ELSE UNION {
            IF a.panic \/ a.err # Nil THEN {Outcome(a.err, a.panic, a.calls)}
            ELSE Then({ Outcome(g.err, g.panic, a.calls \o g.calls)
                        : g \in (IF a.id # ""
                                 THEN addUserToIDCSGroups(tok, p, a.id)
                                 ELSE {Outcome(Nil, FALSE, <<>>)}) },
                      sts)
            : a \in addUserToIDCS(tok, p) }

\* deleteUserFromIDCS with an absent user taken for already deleted
deleteUserFromIDCSAbsentIsDone(tok, person) ==
    UNION {
        LET c1 == Call("IDCS", "lookupUser", person.UserID, <<>>, tok, r1)
        IN  IF HttpFailed(r1, {200})
            THEN {Outcome("error", FALSE, <<c1>>)}
            ELSE IF r1.id = ""
                 THEN {Outcome(Nil, FALSE, <<c1>>)}
                 ELSE { LET c2 == Call("IDCS", "deleteUser", person.UserID, <<>>, tok, r2)
                        IN  IF HttpFailed(r2, {200, 204})
                            THEN Outcome("error", FALSE, <<c1, c2>>)
                            ELSE Outcome(Nil, FALSE, <<c1, c2>>)
                        : r2 \in IdcsDeleteResponses }
        : r1 \in IdcsUserLookupResponses }

\* the first half of deleteIDCSVBCSUser: look the user up in IDCS, fail when
\* absent, force-delete
deleteUserFromIDCS(tok, person) ==
    UNION {
        LET c1 == Call("IDCS", "lookupUser", person.UserID, <<>>, tok, r1)
        IN  IF HttpFailed(r1, {200}) \/ r1.id = ""
            THEN {Outcome("error", FALSE, <<c1>>)}
            ELSE { LET c2 == Call("IDCS", "deleteUser", person.UserID, <<>>, tok, r2)
                   IN  IF HttpFailed(r2, {200, 204})
                       THEN Outcome("error", FALSE, <<c1, c2>>)
                       ELSE Outcome(Nil, FALSE, <<c1, c2>>)
                   : r2 \in IdcsDeleteResponses }
        : r1 \in IdcsUserLookupResponses }

\* deleteIDCSVBCSUser that goes on to the apps whatever IDCS answered
deleteIDCSVBCSUserAppsRegardless(tok, person) ==
    UNION { { Outcome(IF a.err # Nil THEN a.err ELSE b.err, FALSE, a.calls \o b.calls)
              : b \in Then(deleteUserFromVBCSApp("ECAL", person),
                           deleteUserFromVBCSApp("STS", person)) }
            : a \in deleteUserFromIDCS(tok, person) }

\* deleteIDCSVBCSUser: IDCS, then the ECAL app, then the STS app
deleteIDCSVBCSUser(tok, person) ==
    Then(Then(deleteUserFromIDCS(tok, person),
              deleteUserFromVBCSApp("ECAL", person)),
         deleteUserFromVBCSApp("STS", person))

\* ------------------------------------------------------------- environment

\* an AriaServicePerson: the fields the program acts on
Person(UserID, Manager, NumberOfDirects, AppMap) ==
    [UserID |-> UserID, Manager |-> Manager,
     NumberOfDirects |-> NumberOfDirects, AppMap |-> AppMap]

\* the persons the feed may return: an individual tagged for both apps with a
\* manager DN, a manager tagged for STS only, an individual tagged for ECAL
\* only, and a manager whose manager field is no DN
PersonPool ==
    { Person(<<"a">>, <<"c", "n", "=", "J", "_", "D", ",", "l", "=", "x">>, 0,
             <<"ECAL", ",", "STS">>),
      Person(<<"b">>, <<>>, 2, <<"STS">>),
      Person(<<"c">>, <<>>, 0, <<"ECAL">>),
      Person(<<"d">>, <<"x">>, 1, <<>>) }

\* the rosters the feed may return: no person twice
Rosters ==
    { r \in UNION { [1..n -> PersonPool] : n \in 0..MaxRoster } :
        \A k, l \in 1..Len(r) : r[k] = r[l] => k = l }

\* what json Decode leaves in peopleList when it returns an error: nothing,
\* or the items it got through before it gave up
UndecodedRosters == { r \in Rosters : Len(r) < MaxRoster }

\* the answers of the roster feed: none, or a 200 whose body Decode turns
\* into a roster (decodeErr Nil) or gives up on (decodeErr "error")
RosterResponses ==
    {[err |-> TRUE, nil |-> TRUE, status |-> 0, items |-> <<>>, decodeErr |-> Nil],
     [err |-> FALSE, nil |-> FALSE, status |-> 500, items |-> <<>>, decodeErr |-> Nil]}
    \cup { [err |-> FALSE, nil |-> FALSE, status |-> 200, items |-> r,
            decodeErr |-> Nil] : r \in Rosters }
    \cup { [err |-> FALSE, nil |-> FALSE, status |-> 200, items |-> r,
            decodeErr |-> "error"] : r \in UndecodedRosters }

\* the answers of POST /oauth2/v1/token: id is the access_token of the body
TokenResponses ==
    {Transport, Http(500, "", <<>>), Http(200, "tok", <<>>), Http(200, "", <<>>)}

\* the literal strings.Contains looks for in a listed email
CtoTest == <<"cto-test">>

\* the emails the ECAL app may list: a roster member's, a stray one, a test
\* account's
EmailPool == {<<"a">>, <<"s">>, <<"cto-test", "1">>}

\* userEmail is unique in the app: no email is listed twice
Listings ==
    { l \in UNION { [1..n -> EmailPool] : n \in 0..MaxListing } :
        \A k, m \in 1..Len(l) : l[k] = l[m] => k = m }

\* the answers of GET <ECAL endpoint>?limit=5000&fields=userEmail
ListingResponses ==
    {[err |-> TRUE, nil |-> TRUE, status |-> 0, items |-> <<>>],
     [err |-> FALSE, nil |-> FALSE, status |-> 500, items |-> <<>>]}
    \cup { [err |-> FALSE, nil |-> FALSE, status |-> 200, items |-> l] : l \in Listings }

\* what the operator may type at the prompt (<<>>: end of input)
Answers ==
    {<<"y", "\n">>, <<"Y", "\n">>, <<"n", "\n">>, <<"y", "e", "s", "\n">>, <<>>}

\* os.Args
ArgLists ==
    {<<"prog">>, <<"prog", "-h">>, <<"prog", "--help">>, <<"prog", "--bogus">>,
     <<"prog", ADD>>, <<"prog", DELETE>>, <<"prog", CLEAN>>, <<"prog", LIST>>}

\* managerEmail before convertManagerDnToEmail has returned
NotConverted == [panic |-> FALSE, value |-> <<>>]

\* the status of an answer (0: no response)
StatusOf(r) == IF r.err THEN 0 ELSE r.status

\* -------------------------------------------------------------------- state

VARIABLES
    pc,                         \* where main is
    halt,                       \* "" while running, else how the process ended
    runMode,                    \* what invocationRunMode returned
    accessToken,                \* the bearer token: the serial of its issue
    tokensIssued,               \* how many tokens IDCS has issued to this run
    peopleList,                 \* peopleList.Items
    i,                          \* the index of the loop of main that is running
    usersSucessfullyProcessed,  \* the tally of the running loop
    trace,                      \* the calls of the last loop body or sync
    lastErr,                    \* the error the last loop body ended with
    lastErr2,                   \* clean mode: err2 of the last loop body
    lastStep,                   \* which loop body ran last
    syncCalls,                  \* how often the OCE sync request was sent
    oceCalls,                   \* how many per-person OCE requests were sent
    tally1,                     \* what the first loop reported (-1: nothing yet)
    tally2,                     \* what the second loop reported (-1: nothing yet)
    result,                     \* clean mode: the emails the ECAL app listed
    text,                       \* clean mode: the answer to the last prompt
    offered,                    \* clean mode: the emails prompted for so far
    removeCount,                \* clean mode: the tally
    processed1,                 \* history: the persons the first loop went through
    syncStatus,                 \* history: the status the OCE sync request got
                                \* (-1: not sent, 0: no response)
    args,                       \* os.Args
    tokenStatus,                \* history: the status the last token request got
    rosterStatus,               \* history: the status the roster request got
    managerDN,                  \* the argument of convertManagerDnToEmail
    managerEmail,               \* what convertManagerDnToEmail made of it
    decodeErr                   \* history: the error Decode returned for the
                                \* roster, which getPeopleFromAria drops

vars ==
    <<pc, halt, runMode, accessToken, tokensIssued, peopleList, i,
      usersSucessfullyProcessed, trace, lastErr, lastErr2, lastStep, syncCalls,
      oceCalls, tally1, tally2, result, text, offered, removeCount,
      processed1, syncStatus, args, tokenStatus, rosterStatus, managerDN,
      managerEmail, decodeErr>>

\* what the program is started with: the command line
Init ==
    /\ pc = "start"
    /\ args \in ArgLists
    /\ halt = ""
    /\ runMode = ""
    /\ accessToken = 0
    /\ tokensIssued = 0
    /\ peopleList = <<>>
    /\ i = 0
    /\ usersSucessfullyProcessed = 0
    /\ trace = <<>>
    /\ lastErr = Nil
    /\ lastErr2 = Nil
    /\ lastStep = ""
    /\ syncCalls = 0
    /\ oceCalls = 0
    /\ tally1 = -1
    /\ tally2 = -1
    /\ result = <<>>
    /\ text = <<>>
    /\ offered = {}
    /\ removeCount = 0
    /\ processed1 = 0
    /\ syncStatus = -1
    /\ tokenStatus = -1
    /\ rosterStatus = -1
    /\ managerDN = <<>>
    /\ managerEmail = NotConverted
    /\ decodeErr = Nil

\* the process ends: exit code or panic
Halt(how) == /\ pc' = "halted"
             /\ halt' = how

\* invocationRunMode with a missing argument sent to the last branch
invocationRunModeMissingIsError(argv) ==
    IF Len(argv) >= 2 /\ (argv[2] = "-h" \/ argv[2] = "--help")
    THEN [exit |-> 1, mode |-> ""]
    ELSE IF Len(argv) >= 2 /\ argv[2] \in {DELETE, ADD, CLEAN, LIST}
    THEN [exit |-> 0, mode |-> argv[2]]
    ELSE [exit |-> 3, mode |-> ""]

\* invocationRunMode: the mode os.Args[1] names, exit 1 for help or no
\* argument, exit 3 for anything else
invocationRunMode(argv) ==
    IF Len(argv) < 2 \/ argv[2] = "-h" \/ argv[2] = "--help"
    THEN [exit |-> 1, mode |-> ""]
    ELSE IF argv[2] = DELETE THEN [exit |-> 0, mode |-> DELETE]
    ELSE IF argv[2] = ADD THEN [exit |-> 0, mode |-> ADD]
    ELSE IF argv[2] = CLEAN THEN [exit |-> 0, mode |-> CLEAN]
    ELSE IF argv[2] = LIST THEN [exit |-> 0, mode |-> LIST]
    ELSE [exit |-> 3, mode |-> ""]

\* main, up to the token request
Start ==
    /\ pc = "start"
    /\ LET m == invocationRunMode(args)
       IN  IF m.exit # 0
           THEN /\ Halt(IF m.exit = 1 THEN "exit1" ELSE "exit3")
                /\ UNCHANGED runMode
           ELSE /\ pc' = "token"
                /\ runMode' = m.mode
                /\ UNCHANGED halt
    /\ UNCHANGED <<args, tokenStatus, rosterStatus, managerDN, managerEmail, decodeErr>>
    /\ UNCHANGED <<accessToken, tokensIssued, peopleList, i,
                   usersSucessfullyProcessed, trace, lastErr, lastErr2, lastStep,
                   syncCalls, oceCalls, tally1, tally2, result, text, offered,
                   removeCount,
                   processed1, syncStatus>>

\* getIDCSAccessToken that logs a failed request and returns the empty token
getIDCSAccessTokenNoPanic(r) ==
    IF HttpFailed(r, {200}) THEN [panic |-> FALSE, token |-> 0]
    ELSE IF r.id = "" THEN [panic |-> TRUE, token |-> 0]
    ELSE [panic |-> FALSE, token |-> tokensIssued + 1]

\* getIDCSAccessToken: the token, or a panic when the request fails or the
\* body holds no access_token
getIDCSAccessToken(r) ==
    IF HttpFailed(r, {200}) THEN [panic |-> TRUE, token |-> 0]
    ELSE IF r.id = "" THEN [panic |-> TRUE, token |-> 0]
    ELSE [panic |-> FALSE, token |-> tokensIssued + 1]

\* main: accessToken := getIDCSAccessToken(config, client)
GetToken ==
    /\ pc = "token"
    /\ \E r \in TokenResponses :
         LET t == getIDCSAccessToken(r)
         IN  /\ tokenStatus' = StatusOf(r)
             /\ IF t.panic
                THEN /\ Halt("panic:token")
                     /\ UNCHANGED <<accessToken, tokensIssued>>
                ELSE /\ pc' = "roster"
                     /\ accessToken' = t.token
                     /\ tokensIssued' = tokensIssued + 1
                     /\ UNCHANGED halt
    /\ UNCHANGED <<args, rosterStatus, managerDN, managerEmail, decodeErr>>
    /\ UNCHANGED <<runMode, peopleList, i, usersSucessfullyProcessed, trace,
                   lastErr, lastErr2, lastStep, syncCalls, oceCalls, tally1,
                   tally2, result, text, offered, removeCount,
                   processed1, syncStatus>>

\* getPeopleFromAria: a panic, or whatever Decode left in peopleList: the
\* error Decode returns is dropped
getPeopleFromAria(r) ==
    IF HttpFailed(r, {200}) THEN [panic |-> TRUE, items |-> <<>>]
    ELSE [panic |-> FALSE, items |-> r.items]

\* main: peopleList := getPeopleFromAria(config, client), then the branch on
\* the run mode
GetPeople ==
    /\ pc = "roster"
    /\ \E r \in RosterResponses :
         LET got == getPeopleFromAria(r)
         IN  /\ rosterStatus' = StatusOf(r)
             /\ decodeErr' = IF got.panic THEN Nil ELSE r.decodeErr
             /\ IF got.panic
                THEN /\ Halt("panic:roster")
                     /\ UNCHANGED peopleList
                ELSE /\ peopleList' = got.items
                     /\ pc' = IF runMode \in {LIST, ADD, DELETE} THEN "loop1" ELSE "cleanlist"
                     /\ UNCHANGED halt
    /\ UNCHANGED <<args, tokenStatus, managerDN, managerEmail>>
    /\ UNCHANGED <<runMode, accessToken, tokensIssued, i,
                   usersSucessfullyProcessed, trace, lastErr, lastErr2, lastStep,
                   syncCalls, oceCalls, tally1, tally2, result, text, offered,
                   removeCount,
                   processed1, syncStatus>>

\* LoopOneHandler as it was before list mode: whatever is not a delete run
\* adds
LoopOneHandlerAddOrDelete(mode, tok, person) ==
    IF mode = DELETE THEN deleteIDCSVBCSUser(tok, person)
    ELSE addIDCSVBCSUser(tok, person)

\* what the body of the first loop does for one person: nothing in list mode
\* (err stays errors.New("")), the delete or the add handler otherwise
LoopOneHandler(mode, tok, person) ==
    IF mode = DELETE THEN deleteIDCSVBCSUser(tok, person)
    ELSE IF mode = ADD THEN addIDCSVBCSUser(tok, person)
    ELSE {Outcome("error", FALSE, <<>>)}

\* Count that counts every person the loop went through
CountEveryone(n, err) == n + 1

\* the tally after a loop body that ended with err
Count(n, err) == IF err # Nil THEN n ELSE n + 1

\* NeedsRefresh with the modulus one too large
NeedsRefreshOffByOne(n) == n > 0 /\ n % (TokenRefreshEvery + 1) = 0

\* if i > 0 && i%1000 == 0: a new token before the person at index i
NeedsRefresh(n) == n > 0 /\ n % TokenRefreshEvery = 0

\* one pass of the first loop of main: the token refresh every
\* TokenRefreshEvery persons, the handler of the run mode, the tally
LoopOneBody ==
    /\ pc = "loop1"
    /\ i < Len(peopleList)
    /\ LET refresh == NeedsRefresh(i)
       IN  \E rt \in (IF refresh THEN TokenResponses ELSE {Transport}) :
             LET t == IF refresh THEN getIDCSAccessToken(rt)
                      ELSE [panic |-> FALSE, token |-> accessToken]
             IN  IF t.panic
                 THEN /\ tokenStatus' = StatusOf(rt)
                      /\ Halt("panic:token")
                      /\ UNCHANGED <<accessToken, tokensIssued, i,
                                     usersSucessfullyProcessed, trace, lastErr,
                                     lastStep, processed1>>
                 ELSE /\ tokenStatus' = IF refresh THEN StatusOf(rt) ELSE tokenStatus
                      /\ accessToken' = t.token
                      /\ tokensIssued' = IF refresh THEN tokensIssued + 1 ELSE tokensIssued
                      /\ \E o \in LoopOneHandler(runMode, t.token, peopleList[i + 1]) :
                           /\ trace' = o.calls
                           /\ lastStep' = runMode
                           /\ IF o.panic
                              THEN /\ Halt("panic:person")
                                   /\ UNCHANGED <<i, usersSucessfullyProcessed, lastErr,
                                                  processed1>>
                              ELSE /\ lastErr' = o.err
                                   /\ usersSucessfullyProcessed' =
                                          Count(usersSucessfullyProcessed, o.err)
                                   /\ i' = i + 1
                                   /\ processed1' = processed1 + 1
                                   /\ UNCHANGED <<pc, halt>>
    /\ UNCHANGED <<args, rosterStatus, managerDN, managerEmail, decodeErr>>
    /\ UNCHANGED <<runMode, peopleList, lastErr2, syncCalls, oceCalls, tally1,
                   tally2, result, text, offered, removeCount,
                   syncStatus>>

\* LoopOneEnd with the loop left after its first pass (the premature stop the
\* source keeps in a comment)
LoopOneEndPremature ==
    /\ pc = "loop1"
    /\ i >= 1 \/ i = Len(peopleList)
    /\ tally1' = usersSucessfullyProcessed
    /\ IF runMode \in {ADD, DELETE}
       THEN /\ pc' = "sync"
            /\ UNCHANGED halt
       ELSE Halt("exit0")
    /\ UNCHANGED <<args, tokenStatus, rosterStatus, managerDN, managerEmail, decodeErr>>
    /\ UNCHANGED <<runMode, accessToken, tokensIssued, peopleList, i,
                   usersSucessfullyProcessed, trace, lastErr, lastErr2, lastStep,
                   syncCalls, oceCalls, tally2, result, text, offered, removeCount,
                   processed1, syncStatus>>

\* the first loop is through: report the tally; add and delete go on to the
\* OCE sync, list mode is done
LoopOneEnd ==
    /\ pc = "loop1"
    /\ i = Len(peopleList)
    /\ tally1' = usersSucessfullyProcessed
    /\ IF runMode \in {ADD, DELETE}
       THEN /\ pc' = "sync"
            /\ UNCHANGED halt
       ELSE Halt("exit0")
    /\ UNCHANGED <<args, tokenStatus, rosterStatus, managerDN, managerEmail, decodeErr>>
    /\ UNCHANGED <<runMode, accessToken, tokensIssued, peopleList, i,
                   usersSucessfullyProcessed, trace, lastErr, lastErr2, lastStep,
                   syncCalls, oceCalls, tally2, result, text, offered, removeCount,
                   processed1, syncStatus>>

\* main: the one OCE sync; exit 1 when it returns an error, else reset the
\* tally and start the second loop
SyncOCE ==
    /\ pc = "sync"
    /\ \E o \in syncOCEProfileData :
         /\ trace' = o.calls
         /\ lastStep' = "sync"
         /\ lastErr' = o.err
         /\ syncCalls' = syncCalls + 1
         /\ syncStatus' = o.calls[1].r.status
         /\ IF o.err # Nil
            THEN /\ Halt("exit1")
                 /\ UNCHANGED <<i, usersSucessfullyProcessed>>
            ELSE /\ pc' = "loop2"
                 /\ i' = 0
                 /\ usersSucessfullyProcessed' = 0
                 /\ UNCHANGED halt
    /\ UNCHANGED <<args, tokenStatus, rosterStatus, managerDN, managerEmail, decodeErr>>
    /\ UNCHANGED <<runMode, accessToken, tokensIssued, peopleList, lastErr2,
                   oceCalls, tally1, tally2, result, text, offered, removeCount,
                   processed1>>

\* LoopTwoHandler that grants the share in every mode
LoopTwoHandlerGrantOnly(mode, person) == addOCEUser(person)

\* what the body of the second loop does for a person tagged ECAL
LoopTwoHandler(mode, person) ==
    IF mode = DELETE THEN deleteOCEUser(person)
    ELSE IF mode = ADD THEN addOCEUser(person)
    ELSE {Outcome("error", FALSE, <<>>)}

\* LoopTwoBody that stays at a person whose handler returned an error and
\* tries again
LoopTwoBodyRetrying ==
    /\ pc = "loop2"
    /\ i < Len(peopleList)
    /\ LET person == peopleList[i + 1]
       IN  IF Contains(person.AppMap, EcalTag)
           THEN \E o \in LoopTwoHandler(runMode, person) :
                  /\ trace' = o.calls
                  /\ lastStep' = "oce"
                  /\ lastErr' = o.err
                  /\ oceCalls' = oceCalls + Len(o.calls)
                  /\ usersSucessfullyProcessed' = Count(usersSucessfullyProcessed, o.err)
           ELSE /\ trace' = <<>>
                /\ lastStep' = "oceskip"
                /\ lastErr' = Nil
                /\ UNCHANGED <<oceCalls, usersSucessfullyProcessed>>
    /\ i' = IF lastErr' = Nil THEN i + 1 ELSE i
    /\ UNCHANGED <<args, tokenStatus, rosterStatus, managerDN, managerEmail, decodeErr>>
    /\ UNCHANGED <<pc, halt, runMode, accessToken, tokensIssued, peopleList,
                   lastErr2, syncCalls, tally1, tally2, result, text, offered,
                   removeCount,
                   processed1, syncStatus>>

\* one pass of the second loop of main
LoopTwoBody ==
    /\ pc = "loop2"
    /\ i < Len(peopleList)
    /\ LET person == peopleList[i + 1]
       IN  IF Contains(person.AppMap, EcalTag)
           THEN \E o \in LoopTwoHandler(runMode, person) :
                  /\ trace' = o.calls
                  /\ lastStep' = "oce"
                  /\ lastErr' = o.err
                  /\ oceCalls' = oceCalls + Len(o.calls)
                  /\ usersSucessfullyProcessed' = Count(usersSucessfullyProcessed, o.err)
           ELSE /\ trace' = <<>>
                /\ lastStep' = "oceskip"
                /\ lastErr' = Nil
                /\ UNCHANGED <<oceCalls, usersSucessfullyProcessed>>
    /\ i' = i + 1
    /\ UNCHANGED <<args, tokenStatus, rosterStatus, managerDN, managerEmail, decodeErr>>
    /\ UNCHANGED <<pc, halt, runMode, accessToken, tokensIssued, peopleList,
                   lastErr2, syncCalls, tally1, tally2, result, text, offered,
                   removeCount,
                   processed1, syncStatus>>

\* the second loop is through: report the tally, return from main
LoopTwoEnd ==
    /\ pc = "loop2"
    /\ i = Len(peopleList)
    /\ tally2' = usersSucessfullyProcessed
    /\ Halt("exit0")
    /\ UNCHANGED <<args, tokenStatus, rosterStatus, managerDN, managerEmail, decodeErr>>
    /\ UNCHANGED <<runMode, accessToken, tokensIssued, peopleList, i,
                   usersSucessfullyProcessed, trace, lastErr, lastErr2, lastStep,
                   syncCalls, oceCalls, tally1, result, text, offered, removeCount,
                   processed1, syncStatus>>

\* ---------------------------------------------------------------- clean mode

\* main: GET the emails of all users of the ECAL app; exit 3 on failure
CleanList ==
    /\ pc = "cleanlist"
    /\ \E r \in ListingResponses :
         /\ trace' = <<Call("ECAL", "listUsers", <<>>, <<>>, 0,
                            IF r.err THEN Transport ELSE Http(r.status, "", <<>>))>>
         /\ lastStep' = "cleanlist"
         /\ IF HttpFailed(r, {200})
            THEN /\ Halt("exit3")
                 /\ UNCHANGED <<result, i>>
            ELSE /\ result' = r.items
                 /\ i' = 0
                 /\ pc' = "clean"
                 /\ UNCHANGED halt
    /\ UNCHANGED <<args, tokenStatus, rosterStatus, managerDN, managerEmail, decodeErr>>
    /\ UNCHANGED <<runMode, accessToken, tokensIssued, peopleList,
                   usersSucessfullyProcessed, lastErr, lastErr2, syncCalls,
                   oceCalls, tally1, tally2, text, offered, removeCount,
                   processed1, syncStatus>>

\* _, userExistsInAria := ariaMap[email]
userExistsInAria(people, email) == \E k \in 1..Len(people) : people[k].UserID = email

\* OfferedForRemoval without the test-account exclusion
OfferedForRemovalNoTestFilter(people, email) == ~userExistsInAria(people, email)

\* whether the clean loop prompts for this email
OfferedForRemoval(people, email) ==
    ~userExistsInAria(people, email) /\ ~Contains(email, CtoTest)

\* Confirmed taking any answer that starts with a "y"
ConfirmedByFirstLetter(answer) == HasPrefix(ToUpper(answer), <<"Y">>)

\* whether the answer typed at the prompt confirms the removal: the line
\* without its newlines, upper-cased, is "Y"
Confirmed(answer) == ToUpper(ReplaceAll(answer, "\n", <<>>)) = <<"Y">>

\* the person the clean loop hands to the delete handlers: the zero value
\* (the email is in no roster entry) with UserID set to the email
CleanPerson(email) == Person(email, <<>>, 0, <<>>)

\* one pass of the clean loop up to the answer: skip a roster member or test
\* account, else prompt and read the answer
CleanNext ==
    /\ pc = "clean"
    /\ i < Len(result)
    /\ LET email == result[i + 1]
       IN  IF OfferedForRemoval(peopleList, email)
           THEN \E answer \in Answers :
                  /\ text' = answer
                  /\ offered' = offered \cup {email}
                  /\ trace' = <<>>
                  /\ IF Confirmed(answer)
                     THEN /\ pc' = "cleanidcs"
                          /\ lastStep' = "cleanconfirm"
                          /\ UNCHANGED i
                     ELSE /\ i' = i + 1
                          /\ lastStep' = "cleanskip"
                          /\ UNCHANGED pc
           ELSE /\ i' = i + 1
                /\ lastStep' = "cleankeep"
                /\ trace' = <<>>
                /\ UNCHANGED <<pc, text, offered>>
    /\ UNCHANGED <<args, tokenStatus, rosterStatus, managerDN, managerEmail, decodeErr>>
    /\ UNCHANGED <<halt, runMode, accessToken, tokensIssued, peopleList,
                   usersSucessfullyProcessed, lastErr, lastErr2, syncCalls,
                   oceCalls, tally1, tally2, result, removeCount,
                   processed1, syncStatus>>

\* the clean loop after a confirmation: err = deleteIDCSVBCSUser(...)
CleanRemoveIDCSVBCS ==
    /\ pc = "cleanidcs"
    /\ \E o \in deleteIDCSVBCSUser(accessToken, CleanPerson(result[i + 1])) :
         /\ trace' = o.calls
         /\ lastErr' = o.err
    /\ lastStep' = "cleanidcs"
    /\ pc' = "cleanoce"
    /\ UNCHANGED <<args, tokenStatus, rosterStatus, managerDN, managerEmail, decodeErr>>
    /\ UNCHANGED <<halt, runMode, accessToken, tokensIssued, peopleList, i,
                   usersSucessfullyProcessed, lastErr2, syncCalls, oceCalls,
                   tally1, tally2, result, text, offered, removeCount,
                   processed1, syncStatus>>

\* the clean loop after that: err2 := deleteOCEUser(...), then the tally
CleanRemoveOCE ==
    /\ pc = "cleanoce"
    /\ \E o \in deleteOCEUser(CleanPerson(result[i + 1])) :
         /\ trace' = o.calls
         /\ lastErr2' = o.err
         /\ oceCalls' = oceCalls + Len(o.calls)
         /\ removeCount' = IF lastErr = Nil /\ o.err = Nil
                           THEN removeCount + 1 ELSE removeCount
    /\ lastStep' = "cleanoce"
    /\ i' = i + 1
    /\ pc' = "clean"
    /\ UNCHANGED <<args, tokenStatus, rosterStatus, managerDN, managerEmail, decodeErr>>
    /\ UNCHANGED <<halt, runMode, accessToken, tokensIssued, peopleList,
                   usersSucessfullyProcessed, lastErr, syncCalls, tally1, tally2,
                   result, text, offered,
                   processed1, syncStatus>>

\* the clean loop is through: report removeCount, return from main
CleanEnd ==
    /\ pc = "clean"
    /\ i = Len(result)
    /\ Halt("exit0")
    /\ UNCHANGED <<args, tokenStatus, rosterStatus, managerDN, managerEmail, decodeErr>>
    /\ UNCHANGED <<runMode, accessToken, tokensIssued, peopleList, i,
                   usersSucessfullyProcessed, trace, lastErr, lastErr2, lastStep,
                   syncCalls, oceCalls, tally1, tally2, result, text, offered,
                   removeCount,
                   processed1, syncStatus>>

\* ------------------------------------------------------------ specification

Next ==
    \/ Start
    \/ GetToken
    \/ GetPeople
    \/ LoopOneBody
    \/ LoopOneEnd
    \/ SyncOCE
    \/ LoopTwoBody
    \/ LoopTwoEnd
    \/ CleanList
    \/ CleanNext
    \/ CleanRemoveIDCSVBCS
    \/ CleanRemoveOCE
    \/ CleanEnd

Spec == Init /\ [][Next]_vars

\* --------------------------------------------- the first loop, a long roster

\* the n-th person of a long roster: an individual tagged for STS
LongPerson(n) == Person(<<"u", ToString(n)>>, <<>>, 0, <<"STS">>)

\* a roster of len persons
LongRoster(len) == [n \in 1..len |-> LongPerson(n)]

\* what the body of the first loop may have done for a person every request
\* for whom got no response
Unanswered(mode, tok, person) ==
    { o \in LoopOneHandler(mode, tok, person) :
        /\ ~o.panic
        /\ o.err # Nil
        /\ \A k \in 1..Len(o.calls) : o.calls[k].r = Transport }

\* main in the first loop, one person short of its k-th token refresh on a
\* roster that reaches one person past it: the run so far got the token and
\* the roster at once and no response to any request after that
MidRun(k, mode) ==
    /\ pc = "loop1"
    /\ args = <<"prog", mode>>
    /\ halt = ""
    /\ runMode = mode
    /\ accessToken = k
    /\ tokensIssued = k
    /\ peopleList = LongRoster(k * TokenRefreshEvery + 1)
    /\ i = k * TokenRefreshEvery - 1
    /\ usersSucessfullyProcessed = 0
    /\ \E o \in Unanswered(mode, k, LongPerson(k * TokenRefreshEvery - 1)) :
         /\ trace = o.calls
         /\ lastErr = o.err
    /\ lastErr2 = Nil
    /\ lastStep = mode
    /\ syncCalls = 0
    /\ oceCalls = 0
    /\ tally1 = -1
    /\ tally2 = -1
    /\ result = <<>>
    /\ text = <<>>
    /\ offered = {}
    /\ removeCount = 0
    /\ processed1 = k * TokenRefreshEvery - 1
    /\ syncStatus = -1
    /\ tokenStatus = 200
    /\ rosterStatus = 200
    /\ managerDN = <<>>
    /\ managerEmail = NotConverted
    /\ decodeErr = Nil

\* the start of the program, or the first loop far into a long roster
InitRefresh ==
    \/ Init
    \/ \E k \in 1..MaxRefreshes : \E mode \in {ADD, DELETE, LIST} : MidRun(k, mode)

\* main up to the end of the first loop
NextRefresh ==
    \/ Start
    \/ GetToken
    \/ GetPeople
    \/ LoopOneBody
    \/ LoopOneEnd

SpecRefresh == InitRefresh /\ [][NextRefresh]_vars

\* ------------------------------------------ convertManagerDnToEmail by itself

\* the symbols a manager field is drawn from
DnAlphabet == {"c", "J", "_", "=", ","}

\* a manager field as the directory holds it
SampleDN == <<"c", "n", "=", "J", "_", "D", ",", "l", "=", "x">>

\* the manager fields convertManagerDnToEmail is applied to
DnStrings ==
    UNION { [1..n -> DnAlphabet] : n \in 0..MaxDnLen } \cup {SampleDN}

\* addIDCSVBCSUser about to call convertManagerDnToEmail(person.Manager)
InitConvert ==
    /\ pc = "convert"
    /\ managerDN \in DnStrings
    /\ managerEmail = NotConverted
    /\ args = <<"prog", ADD>>
    /\ halt = ""
    /\ runMode = ADD
    /\ accessToken = 0
    /\ tokensIssued = 0
    /\ peopleList = <<>>
    /\ i = 0
    /\ usersSucessfullyProcessed = 0
    /\ trace = <<>>
    /\ lastErr = Nil
    /\ lastErr2 = Nil
    /\ lastStep = ""
    /\ syncCalls = 0
    /\ oceCalls = 0
    /\ tally1 = -1
    /\ tally2 = -1
    /\ result = <<>>
    /\ text = <<>>
    /\ offered = {}
    /\ removeCount = 0
    /\ processed1 = 0
    /\ syncStatus = -1
    /\ tokenStatus = -1
    /\ rosterStatus = -1
    /\ decodeErr = Nil

\* person.Manager = convertManagerDnToEmail(person.Manager)
Convert ==
    /\ pc = "convert"
    /\ pc' = "converted"
    /\ managerEmail' = convertManagerDnToEmail(managerDN)
    /\ UNCHANGED <<halt, runMode, accessToken, tokensIssued, peopleList, i,
                   usersSucessfullyProcessed, trace, lastErr, lastErr2, lastStep,
                   syncCalls, oceCalls, tally1, tally2, result, text, offered,
                   removeCount, processed1, syncStatus, args, tokenStatus,
                   rosterStatus, managerDN, decodeErr>>

SpecConvert == InitConvert /\ [][Convert]_vars

\* ------------------------------------------------------------------ claims

\* a call that got no response, or a response of a server-error status
Failed(c) == c.r.err \/ c.r.status >= 500

\* a lookup that was answered and matched nothing
Absent(c) == c.op = "lookupUser" /\ ~c.r.err /\ c.r.status = 200 /\ c.r.id = ""

\* the person the first or second loop handled last
LastPerson == peopleList[IF halt = "panic:person" THEN i + 1 ELSE i]

\* the first loop has just handled a person in add or delete mode
AfterPersonStep == lastStep \in {ADD, DELETE} /\ pc \in {"loop1", "halted"}
                   /\ (pc = "halted" => halt = "panic:person")

\* C1: in add and delete mode a failed downstream call of one person (no
\* response, or a non-success status) ends that person's steps and nothing
\* else: it is the last call made for the person, the handler returns an
\* error, and the run goes on (it does not panic).
C1_PersonFailureIsolated ==
    AfterPersonStep =>
        \A k \in 1..Len(trace) :
            Failed(trace[k]) => /\ k = Len(trace)
                                /\ halt = ""
                                /\ lastErr # Nil

\* C2: in add mode a person with a failed business-app call (lookup, create
\* or update; no response or a non-success status) is not counted.
C2_FailedAppCallNotCounted ==
    (AfterPersonStep /\ lastStep = ADD /\ halt = "") =>
        ((\E k \in 1..Len(trace) : trace[k].sys = "STS" /\ Failed(trace[k]))
            => lastErr # Nil /\ usersSucessfullyProcessed < i)

\* C3: in an add or delete run the OCE sync request is sent at most once,
\* only after the first loop went through every roster person, and before any
\* per-person OCE request; once the second loop runs it has been sent once.
C3_SyncOnceBetweenLoops ==
    runMode \in {ADD, DELETE} =>
        /\ syncCalls <= 1
        /\ syncCalls = 1 => processed1 = Len(peopleList) /\ tally1 # -1
        /\ oceCalls > 0 => syncCalls = 1
        /\ (pc = "loop2" \/ tally2 # -1) => syncCalls = 1
        /\ (syncCalls = 1 /\ lastStep = "sync") => oceCalls = 0

\* a whole add run: two persons, both loops, sync sent once, OCE requests
\* after it
C3_Witness ==
    /\ runMode = ADD
    /\ halt = "exit0"
    /\ Len(peopleList) >= 2
    /\ processed1 = Len(peopleList)
    /\ syncCalls = 1
    /\ oceCalls >= 2
    /\ tally2 # -1

\* C4: when the OCE sync request fails (no response, or any status but 200)
\* no per-person OCE request is sent in that run.
C4_SyncFailureSkipsOcePhase ==
    (runMode \in {ADD, DELETE} /\ syncStatus \notin {-1, 200}) =>
        /\ oceCalls = 0
        /\ pc = "halted"
        /\ tally2 = -1

\* a step of the delete path: the first loop in delete mode, or the
\* IDCS/VBCS removal of clean mode
DeleteStep == lastStep = "cleanidcs" \/ (lastStep = DELETE /\ pc \in {"loop1", "sync"})

RevokeStep == lastStep = "cleanoce" \/ (lastStep = "oce" /\ runMode = DELETE)

RevokeErr == IF lastStep = "cleanoce" THEN lastErr2 ELSE lastErr

GroupCall(c) == c.op \in {"lookupGroup", "patchGroup"}

\* C6: in add mode no group lookup or group patch is sent for a person whose
\* IDCS record the lookup finds.
C6_NoGroupStepForExistingUser ==
    (AfterPersonStep /\ lastStep = ADD /\ Len(trace) >= 1) =>
        ((/\ trace[1].op = "lookupUser"
          /\ trace[1].sys = "IDCS"
          /\ trace[1].r.status = 200
          /\ trace[1].r.id # "")
            => \A k \in 1..Len(trace) : ~GroupCall(trace[k]))

\* whether the comma-delimited AppMap names the app
Tagged(person, app) == \E k \in 1..Len(person.AppMap) : person.AppMap[k] = app

\* C7: in the add and the delete flow a business-app adapter is called for a
\* person only if the person's AppMap names the app, and in add mode every
\* app the AppMap names is called for a person whose handler returns no
\* error.
C7_AppCalledIffTagged ==
    (AfterPersonStep /\ halt = "") =>
        \A app \in {"ECAL", "STS"} :
            /\ (\E k \in 1..Len(trace) : trace[k].sys = app)
                   => Tagged(LastPerson, app)
            /\ (lastStep = ADD /\ lastErr = Nil /\ Tagged(LastPerson, app))
                   => \E k \in 1..Len(trace) : trace[k].sys = app

\* C8: a 409 answer to a create is no error.  After a 409 from the IDCS
\* create no group call is made and the person's next step runs (the STS
\* lookup when tagged, else the handler returns no error); after a 409 from
\* the STS create the handler returns no error and the person is counted;
\* a grant answered "folder already shared" is no error.
C8_ConflictIsNotAnError ==
    /\ (AfterPersonStep /\ lastStep = ADD) =>
          \A k \in 1..Len(trace) :
              (trace[k].op = "createUser" /\ ~trace[k].r.err /\ trace[k].r.status = 409)
                  => /\ halt = ""
                     /\ trace[k].sys = "IDCS" =>
                          /\ \A l \in 1..Len(trace) : ~GroupCall(trace[l])
                          /\ IF Tagged(LastPerson, "STS")
                             THEN /\ k < Len(trace)
                                  /\ trace[k + 1].sys = "STS"
                                  /\ trace[k + 1].op = "lookupUser"
                             ELSE lastErr = Nil /\ k = Len(trace)
                     /\ trace[k].sys = "STS" =>
                          /\ lastErr = Nil
                          /\ usersSucessfullyProcessed >= 1
    /\ (lastStep = "oce" /\ runMode = ADD) =>
          \A k \in 1..Len(trace) :
              (/\ trace[k].op = "share"
               /\ trace[k].r.status = 400
               /\ Len(trace[k].r.errorKey) >= 1
               /\ trace[k].r.errorKey[1] = "!csFolderAlreadyShared")
                  => lastErr = Nil /\ usersSucessfullyProcessed >= 1

\* add mode: both the IDCS create and the STS create of a person are answered
\* 409 and the person is counted
C8_Witness ==
    /\ AfterPersonStep
    /\ lastStep = ADD
    /\ Len(trace) = 4
    /\ trace[2].sys = "IDCS" /\ trace[2].op = "createUser" /\ trace[2].r.status = 409
    /\ trace[4].sys = "STS" /\ trace[4].op = "createUser" /\ trace[4].r.status = 409
    /\ lastErr = Nil
    /\ usersSucessfullyProcessed = i

\* a per-person OCE step (second loop of add or delete, or clean mode) and
\* the error it ended with
OceStep == lastStep \in {"oce", "cleanoce"}

OceErr == IF lastStep = "cleanoce" THEN lastErr2 ELSE lastErr

\* the errorKey that makes a share or unshare answer a success
AlreadyKey(op) ==
    IF op = "share" THEN "!csFolderAlreadyShared" ELSE "!csUserHasNotBeenShared"

\* C9: a grant answered with the "folder already shared" errorKey and a
\* revoke answered with the "already unshared" errorKey end without error;
\* every other answer of a status but 200, and no answer at all, is an error
\* for that person.
C9_AlreadySharedIsSuccess ==
    OceStep =>
        \A k \in 1..Len(trace) :
            trace[k].op \in {"share", "unshare"} =>
                LET r == trace[k].r
                    already == /\ Len(r.errorKey) >= 1
                               /\ r.errorKey[1] = AlreadyKey(trace[k].op)
                IN  /\ (~r.err /\ r.status # 200 /\ already) => OceErr = Nil
                    /\ (~r.err /\ r.status # 200 /\ ~already) => OceErr # Nil
                    /\ r.err => OceErr # Nil
                    /\ (~r.err /\ r.status = 200) => OceErr = Nil

\* add mode: a grant answered "folder already shared" is counted in the
\* second loop
C9_Witness ==
    /\ lastStep = "oce"
    /\ runMode = ADD
    /\ Len(trace) = 2
    /\ trace[2].op = "share"
    /\ trace[2].r.status = 400
    /\ trace[2].r.errorKey[1] = "!csFolderAlreadyShared"
    /\ lastErr = Nil
    /\ usersSucessfullyProcessed >= 1

\* the emails the clean loop has looked at so far
Examined ==
    { result[k] : k \in 1..(IF pc \in {"cleanidcs", "cleanoce"} THEN i + 1 ELSE i) }

\* C10: in clean mode the emails prompted for are exactly the listed emails
\* that are no roster id and do not hold "cto-test".
C10_OfferedIsListingMinusRoster ==
    runMode = CLEAN =>
        offered = { e \in Examined :
                      /\ \A k \in 1..Len(peopleList) : peopleList[k].UserID # e
                      /\ \A k \in 1..Len(e) : e[k] # "cto-test" }

\* clean mode, through: of a listed stray and a listed test account with a
\* non-empty roster, only the stray was prompted for
C10_Witness ==
    /\ runMode = CLEAN
    /\ halt = "exit0"
    /\ Len(peopleList) >= 1
    /\ Len(result) = 2
    /\ \E k \in 1..2 : result[k] = <<"cto-test", "1">>
    /\ offered = {<<"s">>}

\* the answer is a "y" or a "Y" and nothing else but line ends
Affirmative(t) ==
    LET typed == SelectSeq(t, LAMBDA c : c # "\n")
    IN  typed = <<"y">> \/ typed = <<"Y">>

\* the email the clean loop is at, or was at in its last pass
CleanEmail == result[IF pc \in {"cleanidcs", "cleanoce"} THEN i + 1 ELSE i]

\* C11: in clean mode a request other than the listing is sent for an email
\* only when that email was prompted for and the answer was a "y"; after any
\* other answer, and for an email that is not prompted for, no request is
\* sent and the tally and the count of OCE requests stay as they were.
C11_RemovalOnlyOnAffirmativeAnswer ==
    runMode = CLEAN =>
        /\ \A k \in 1..Len(trace) :
             trace[k].op # "listUsers" =>
                 /\ lastStep \in {"cleanidcs", "cleanoce"}
                 /\ trace[k].who = CleanEmail
                 /\ CleanEmail \in offered
                 /\ Affirmative(text)
        /\ lastStep \in {"cleanidcs", "cleanoce", "cleanconfirm"} =>
               CleanEmail \in offered /\ Affirmative(text)
        /\ lastStep = "cleanskip" =>
               CleanEmail \in offered /\ ~Affirmative(text) /\ trace = <<>>
        /\ lastStep = "cleankeep" => CleanEmail \notin offered /\ trace = <<>>
        /\ offered = {} => oceCalls = 0 /\ removeCount = 0
        /\ (oceCalls > 0 \/ removeCount > 0) =>
               lastStep # "cleanlist" /\ offered # {}

\* clean mode: one stray was removed on a "y", the next one is left alone on
\* a "yes"
C11_Witness ==
    /\ runMode = CLEAN
    /\ lastStep = "cleanskip"
    /\ text = <<"y", "e", "s", "\n">>
    /\ removeCount = 1
    /\ oceCalls >= 1
    /\ trace = <<>>

\* the request got no response or a status other than 200
RequestFailed(status) == status \notin {-1, 200}

\* C12: a token request (the first or a refresh) or the roster request that
\* gets no response or a status other than 200 ends the run in a panic, and
\* no request for a person follows: after the first token request nothing
\* was sent at all, after the roster request no person was handled, after a
\* refresh the person the token was refreshed for was not handled.
C12_FetchFailureAbortsRun ==
    /\ RequestFailed(tokenStatus) =>
           /\ pc = "halted"
           /\ halt = "panic:token"
           /\ syncCalls = 0
           /\ oceCalls = 0
           /\ IF tokensIssued = 0
              THEN /\ rosterStatus = -1
                   /\ peopleList = <<>>
                   /\ processed1 = 0
                   /\ trace = <<>>
              ELSE /\ i > 0
                   /\ i % TokenRefreshEvery = 0
                   /\ processed1 = i
                   /\ \A k \in 1..Len(trace) : trace[k].who = peopleList[i].UserID
    /\ RequestFailed(rosterStatus) =>
           /\ pc = "halted"
           /\ halt = "panic:roster"
           /\ peopleList = <<>>
           /\ processed1 = 0
           /\ trace = <<>>
           /\ syncCalls = 0
           /\ oceCalls = 0

\* add mode: the refresh before the person at index TokenRefreshEvery got a
\* 500 and the run ended there
C12_Witness ==
    /\ runMode = ADD
    /\ tokenStatus = 500
    /\ tokensIssued >= 1
    /\ halt = "panic:token"
    /\ i = TokenRefreshEvery
    /\ Len(peopleList) > i

\* the persons the first loop has called the handler for
Begun == IF halt = "panic:person" THEN i + 1 ELSE i

\* the serial of the token the first loop holds while it handles the person
\* at 0-based index n: a new one before every index that is a positive
\* multiple of 1000
TokenAt(n) == 1 + (n \div 1000)

\* C13: in the first loop the token in use for the person at 0-based index n
\* is the (1 + n div 1000)-th one issued to the run: a new token is acquired
\* before every index that is a positive multiple of 1000, every IDCS call
\* after that carries the new token, and so no token serves the IDCS calls of
\* more than 1000 persons.
C13_TokenRefreshedEveryN ==
    (runMode \in {ADD, DELETE, LIST} /\ rosterStatus = 200 /\ syncStatus = -1) =>
        /\ accessToken = tokensIssued
        /\ tokensIssued = IF Begun = 0 THEN 1 ELSE TokenAt(Begun - 1)
        /\ lastStep \in {ADD, DELETE} =>
               \A k \in 1..Len(trace) :
                   trace[k].sys = "IDCS" =>
                       /\ trace[k].who = peopleList[Begun].UserID
                       /\ trace[k].tok = TokenAt(Begun - 1)

\* add mode: the person at index 1000 was handled without error, its IDCS
\* calls carried the second token
C13_Witness ==
    /\ runMode = ADD
    /\ pc = "loop1"
    /\ i = TokenRefreshEvery + 1
    /\ tokensIssued = 2
    /\ lastErr = Nil
    /\ Len(trace) >= 2
    /\ trace[1].sys = "IDCS"
    /\ trace[1].tok = 2

\* the groups of the configured list a person with this many direct reports
\* belongs in, in list order
ExpectedGroups(directs) ==
    IF directs = 0 THEN << <<"GU1">>, <<"GU2">> >> ELSE << <<"GM1">>, <<"GM2">> >>

\* the group lookup found the group, the patch was accepted
GroupCallOk(c) ==
    /\ ~c.r.err
    /\ c.r.status = 200
    /\ c.op = "lookupGroup" => c.r.id # ""

\* C14: the group calls made for a person in add mode go through the user
\* list when the person has no direct reports and through the manager list
\* when it has some, in list order: each group is looked up and then patched,
\* the next group is reached only when the one before was found and patched,
\* and when no group fails every group of the list is patched.
C14_GroupsOfTheSelectedList ==
    (AfterPersonStep /\ lastStep = ADD) =>
        LET G == SelectSeq(trace, GroupCall)
            E == ExpectedGroups(LastPerson.NumberOfDirects)
        IN  /\ Len(G) <= 2 * Len(E)
            /\ \A k \in 1..Len(G) :
                 /\ G[k].op = IF k % 2 = 1 THEN "lookupGroup" ELSE "patchGroup"
                 /\ G[k].arg = E[(k + 1) \div 2]
                 /\ G[k].who = LastPerson.UserID
                 /\ k < Len(G) => GroupCallOk(G[k])
            /\ (Len(G) >= 1 /\ GroupCallOk(G[Len(G)])) => Len(G) = 2 * Len(E)

\* add mode: a person with direct reports was added to both groups of the
\* manager list
C14_Witness ==
    /\ AfterPersonStep
    /\ lastStep = ADD
    /\ LastPerson.NumberOfDirects > 0
    /\ \E k \in 1..Len(trace) :
         /\ k + 3 <= Len(trace)
         /\ trace[k].op = "lookupGroup" /\ trace[k].arg = <<"GM1">>
         /\ trace[k + 1].op = "patchGroup" /\ trace[k + 1].arg = <<"GM1">>
         /\ trace[k + 2].op = "lookupGroup" /\ trace[k + 2].arg = <<"GM2">>
         /\ trace[k + 3].op = "patchGroup" /\ trace[k + 3].arg = <<"GM2">>
         /\ trace[k + 3].r.status = 200

\* the part of s before its first sep (all of s when it holds none)
UpTo(s, sep) ==
    LET at == {k \in 1..Len(s) : s[k] = sep}
    IN  IF at = {} THEN s
        ELSE SubSeq(s, 1, (CHOOSE k \in at : \A l \in at : k <= l) - 1)

\* the part of s after its first sep (nothing when it holds none)
After(s, sep) ==
    LET at == {k \in 1..Len(s) : s[k] = sep}
    IN  IF at = {} THEN <<>>
        ELSE SubSeq(s, (CHOOSE k \in at : \A l \in at : k <= l) + 1, Len(s))

\* a symbol of the name in an email address
EmailSym(c) ==
    CASE c = "_" -> "."
      [] c = "C" -> "c"
      [] c = "N" -> "n"
      [] c = "J" -> "j"
      [] c = "D" -> "d"
      [] c = "Y" -> "y"
      [] OTHER -> c

\* the reference transform: nothing for the empty string; else the value of
\* the first comma-separated component (what follows its "=", up to a
\* further "="), lower-cased, "_" as ".", and the domain
RefEmail(dn) ==
    IF dn = <<>> THEN <<>>
    ELSE LET name == UpTo(After(UpTo(dn, ","), "="), "=")
         IN  [k \in 1..Len(name) |-> EmailSym(name[k])] \o <<"@", "oracle.com">>

\* C15: for every manager field convertManagerDnToEmail returns, and what
\* it returns is the reference transform of the field.
C15_ManagerEmailIsReference ==
    pc = "converted" =>
        /\ ~managerEmail.panic
        /\ managerEmail.value = RefEmail(managerDN)

\* the command line names one of the four modes
ModeArgument == Len(args) >= 2 /\ args[2] \in {"--add", "--delete", "--clean", "--list"}

\* the command line asks for help
HelpArgument == Len(args) >= 2 /\ args[2] \in {"--help", "-h"}

\* the program has looked at its command line and has ended there with this
\* exit
EndedAtStart(how) ==
    /\ pc = "halted"
    /\ halt = how
    /\ runMode = ""
    /\ tokenStatus = -1

\* the program has looked at its command line and has gone on in the mode it
\* names
WentOnInMode == runMode = args[2] /\ (pc = "halted" => tokenStatus # -1)

\* C16 as stated: the four mode arguments select their mode, --help and -h
\* end the program with exit code 1, and any other argument and a missing
\* argument end it with a non-zero exit code other than that of help.
C16_UsageErrorDistinctFromHelp ==
    pc # "start" =>
        /\ ModeArgument => WentOnInMode
        /\ HelpArgument => EndedAtStart("exit1")
        /\ (~ModeArgument /\ ~HelpArgument) => EndedAtStart("exit3")

\* C16, amended: the four mode arguments select their mode; --help, -h and
\* a missing argument end the program with exit code 1; any other argument
\* ends it with exit code 3.
C16_MissingArgumentExitsLikeHelp ==
    pc # "start" =>
        /\ ModeArgument => WentOnInMode
        /\ (HelpArgument \/ Len(args) < 2) => EndedAtStart("exit1")
        /\ (~ModeArgument /\ ~HelpArgument /\ Len(args) >= 2) => EndedAtStart("exit3")

\* the program was started without an argument and has ended with exit
\* code 1
C16_Witness ==
    /\ args = <<"prog">>
    /\ EndedAtStart("exit1")

\* C17: a list run sends no request for any person and none to OCE or to
\* the ECAL listing: it gets the token and the roster, goes through the
\* roster and ends.
C17_ListModeSendsNothing ==
    runMode = LIST =>
        /\ trace = <<>>
        /\ lastStep \in {"", LIST}
        /\ pc \in {"token", "roster", "loop1", "halted"}
        /\ syncCalls = 0
        /\ syncStatus = -1
        /\ oceCalls = 0
        /\ result = <<>>
        /\ offered = {}
        /\ removeCount = 0
        /\ usersSucessfullyProcessed = 0
        /\ halt \in {"", "exit0", "panic:token", "panic:roster"}

\* a list run went through a roster of two persons and ended
C17_Witness ==
    /\ runMode = LIST
    /\ halt = "exit0"
    /\ Len(peopleList) = 2
    /\ processed1 = 2
    /\ lastStep = LIST
    /\ tally1 = 0

\* the error the last per-person step returned to main
StepErr == IF lastStep = "cleanoce" THEN lastErr2 ELSE lastErr

\* a per-person handler has returned to main and trace holds its calls
HandlerReturned ==
    /\ lastStep \in {ADD, DELETE, "oce", "cleanidcs", "cleanoce"}
    /\ halt # "panic:person"

\* C18: when an existence lookup of a handler gets no response or a status
\* other than 200, the handler returns an error; when it is answered and
\* matches nothing, the handler does not stop there with an error.
C18_FailedLookupIsError ==
    HandlerReturned =>
        \A k \in 1..Len(trace) :
            trace[k].op = "lookupUser" =>
                /\ (trace[k].r.err \/ trace[k].r.status # 200) => StepErr # Nil
                /\ Absent(trace[k]) => (k < Len(trace) \/ StepErr = Nil)

\* C19: in a delete run and in a clean run an OCE unshare request is sent
\* for a person only when the OCE sync request was sent before it in the same
\* run and was answered with status 200.
C19_RevokeOnlyAfterSuccessfulSync ==
    (runMode \in {DELETE, CLEAN} /\ \E k \in 1..Len(trace) : trace[k].op = "unshare") =>
        /\ syncCalls = 1
        /\ syncStatus = 200

\* the role code a created app user gets
ExpectedRole(directs) == IF directs > 0 THEN "stsManager" ELSE "stsUser"

C21_ShareOnlyWithUserId ==
    OceStep =>
        \A k \in 1..Len(trace) :
            /\ trace[k].op \in {"share", "unshare"} =>
                   /\ k >= 2
                   /\ trace[k - 1].op = "lookupUser"
                   /\ trace[k - 1].sys = "OCE"
                   /\ trace[k - 1].r.status = 200
                   /\ trace[k - 1].r.id # ""
            /\ Absent(trace[k]) => k = Len(trace)

\* C22: the clean loop adds one to removeCount for a confirmed email only
\* when none of the requests sent for it, by deleteIDCSVBCSUser (the calls
\* trace holds before the step) and by deleteOCEUser (the calls it holds
\* after), went without a response or got a server-error status.
C22_TallyOnlyWhenAllRemoved ==
    [][(pc = "cleanoce" /\ removeCount' # removeCount) =>
           /\ removeCount' = removeCount + 1
           /\ \A k \in 1..Len(trace) : ~Failed(trace[k])
           /\ \A k \in 1..Len(trace') : ~Failed(trace'[k])]_vars

\* the group lookup was answered and matched no group
NoSuchGroup(c) ==
    c.op = "lookupGroup" /\ ~c.r.err /\ c.r.status = 200 /\ c.r.id = ""

\* C23: when the lookup of a group of the selected list matches no group,
\* that lookup is the last call made for the person (no patch of that or of
\* a later group, no business-app call, nothing that undoes the patches made
\* before it), the handler returns an error, the tally stays as it was and
\* the loop goes on to the next person.
C23_MissingGroupFailsThePersonOnly ==
    [][(/\ pc = "loop1"
        /\ runMode = ADD
        /\ <<i, halt>>' # <<i, halt>>
        /\ \E k \in 1..Len(trace') : NoSuchGroup(trace'[k])) =>
           /\ NoSuchGroup(trace'[Len(trace')])
           /\ \A k \in 1..(Len(trace') - 1) :
                /\ ~NoSuchGroup(trace'[k])
                /\ trace'[k].sys = "IDCS"
                /\ trace'[k].op \in {"lookupUser", "createUser", "lookupGroup",
                                     "patchGroup"}
           /\ lastErr' # Nil
           /\ usersSucessfullyProcessed' = usersSucessfullyProcessed
           /\ halt' = ""
           /\ pc' = "loop1"
           /\ i' = i + 1]_vars

\* add mode: the first person went through, for the second the first group
\* was patched and the second group does not exist; the person is not in the
\* tally and the loop is still running
C23_Witness ==
    /\ runMode = ADD
    /\ pc = "loop1"
    /\ i = 2
    /\ usersSucessfullyProcessed = 1
    /\ lastErr # Nil
    /\ Len(trace) >= 3
    /\ NoSuchGroup(trace[Len(trace)])
    /\ trace[Len(trace) - 1].op = "patchGroup"
    /\ trace[Len(trace) - 1].r.status = 200

\* the persons among the first n of the roster who are tagged ECAL
TaggedEcalUpTo(n) == {k \in 1..n : Tagged(peopleList[k], "ECAL")}

\* C24: in the second loop of an add or delete run the OCE handler is called
\* for a person exactly when the person's AppMap holds the ECAL tag; for any
\* other person no request is sent, and the tally of the loop never exceeds
\* the number of tagged persons gone through.
C24_OceStepIffTagged ==
    (runMode \in {ADD, DELETE} /\ lastStep \in {"oce", "oceskip"}) =>
        /\ i >= 1
        /\ (lastStep = "oce") = Tagged(peopleList[i], "ECAL")
        /\ lastStep = "oce" =>
               /\ trace # <<>>
               /\ \A k \in 1..Len(trace) :
                    trace[k].sys = "OCE" /\ trace[k].who = peopleList[i].UserID
        /\ lastStep = "oceskip" => trace = <<>>
        /\ usersSucessfullyProcessed <= Cardinality(TaggedEcalUpTo(i))
        /\ TaggedEcalUpTo(i) = {} => oceCalls = 0

\* the second loop granted the share to a tagged first person and has just
\* passed over an untagged second one
C24_Witness ==
    /\ runMode = ADD
    /\ lastStep = "oceskip"
    /\ i = 2
    /\ Tagged(peopleList[1], "ECAL")
    /\ ~Tagged(peopleList[2], "ECAL")
    /\ usersSucessfullyProcessed = 1
    /\ oceCalls = 2

\* where a call stands in the order of the steps for one person: in add mode
\* the IDCS user, the groups, the apps, OCE; in delete mode the IDCS user,
\* the ECAL app, the STS app, OCE
StepRank(mode, c) ==
    IF c.sys = "OCE" THEN 4
    ELSE IF mode = "--add"
         THEN (IF c.sys = "IDCS"
               THEN (IF c.op \in {"lookupGroup", "patchGroup"} THEN 2 ELSE 1)
               ELSE 3)
         ELSE (IF c.sys = "IDCS" THEN 1 ELSE IF c.sys = "ECAL" THEN 2 ELSE 3)

\* C25: the calls made for a person come in the order of the steps (add:
\* IDCS user, groups, app; delete: IDCS user, ECAL app, STS app), the OCE
\* call for any person comes only after the first loop has gone through the
\* whole roster, and the k-th pass of either loop handles the k-th person of
\* the roster.
C25_CallsInStepAndRosterOrder ==
    /\ AfterPersonStep =>
           /\ \A j, k \in 1..Len(trace) :
                j < k => StepRank(runMode, trace[j]) <= StepRank(runMode, trace[k])
           /\ \A k \in 1..Len(trace) :
                /\ trace[k].who = peopleList[Begun].UserID
                /\ trace[k].sys # "OCE"
           /\ oceCalls = 0
           /\ processed1 = i
    /\ (runMode \in {ADD, DELETE} /\ lastStep = "oce") =>
           /\ processed1 = Len(peopleList)
           /\ syncCalls = 1
           /\ \A k \in 1..Len(trace) :
                trace[k].sys = "OCE" /\ trace[k].who = peopleList[i].UserID

\* delete mode: the second person of the roster was removed from IDCS, from
\* the ECAL app and from the STS app, in that order
C25_Witness ==
    /\ runMode = DELETE
    /\ pc = "loop1"
    /\ i = 2
    /\ lastErr = Nil
    /\ Len(trace) = 6
    /\ trace[2].sys = "IDCS" /\ trace[2].op = "deleteUser"
    /\ trace[4].sys = "ECAL" /\ trace[4].op = "deleteUser"
    /\ trace[6].sys = "STS" /\ trace[6].op = "deleteUser"
    /\ trace[6].who = peopleList[2].UserID

\* no request is among the calls of one step twice
NoCallTwice ==
    \A j, k \in 1..Len(trace) :
        (/\ trace[j].sys = trace[k].sys
         /\ trace[j].op = trace[k].op
         /\ trace[j].arg = trace[k].arg) => j = k

\* a step taken in one of the two loops goes on to the next person, ends the
\* process, or leaves the first loop at the end of the roster
LoopAdvances ==
    pc \in {"loop1", "loop2"} =>
        \/ pc' = pc /\ i' = i + 1 /\ i < Len(peopleList)
        \/ pc' = "halted"
        \/ pc = "loop1" /\ pc' = "sync" /\ i' = i /\ i = Len(peopleList)

\* how far main has come: the phases it goes through one after the other
Phase ==
    CASE pc = "start" -> 0
      [] pc = "token" -> 1
      [] pc = "roster" -> 2
      [] pc \in {"loop1", "cleanlist"} -> 3
      [] pc \in {"sync", "clean", "cleanidcs", "cleanoce"} -> 4
      [] pc = "loop2" -> 5
      [] OTHER -> 6

\* how far the clean loop has come with the email it is at
SubPhase ==
    CASE pc = "cleanidcs" -> 1
      [] pc = "cleanoce" -> 2
      [] OTHER -> 0

\* a step takes main to a later phase, or its loop to a later entry, or the
\* clean loop further with the entry it is at
Progress ==
    \/ Phase' > Phase
    \/ Phase' = Phase /\ i' > i
    \/ Phase' = Phase /\ i' = i /\ SubPhase' > SubPhase

\* the list the running loop goes through
LoopList == IF runMode = CLEAN THEN result ELSE peopleList

\* C26: no request is sent twice for a person in one step; a loop body that
\* has run for a person is followed by the next person whatever the handler
\* returned (no retry, no person twice); and the run ends: every step takes
\* main further in an order that has an end (a later phase, or a later entry
\* of a list it never runs past).
C26_SingleAttemptThenTermination ==
    /\ [](NoCallTwice /\ i <= Len(LoopList))
    /\ [][LoopAdvances /\ Progress]_vars

\* an add run over two persons ended with exit 0 although the handlers of
\* both loops returned errors: nobody is in either tally
C26_Witness ==
    /\ runMode = ADD
    /\ halt = "exit0"
    /\ Len(peopleList) = 2
    /\ processed1 = 2
    /\ tally1 = 0
    /\ tally2 = 0
    /\ lastStep = "oce"
    /\ lastErr # Nil

\* the delete request was answered with 200 or 204
Deleted(c) == c.op = "deleteUser" /\ ~c.r.err /\ c.r.status \in {200, 204}

\* the lookup was answered with a record
Found(c) == c.op = "lookupUser" /\ ~c.r.err /\ c.r.status = 200 /\ c.r.id # ""

\* C27: among the calls of deleteIDCSVBCSUser for a person a request to a
\* business app occurs only after the IDCS lookup found the user and the
\* IDCS delete succeeded, and a request to the STS app only after the ECAL
\* lookup found the user and the ECAL delete succeeded; when IDCS holds no
\* record of the person the IDCS lookup is the only call.
C27_AppDeleteOnlyAfterIdcsDelete ==
    DeleteStep =>
        /\ \A k \in 1..Len(trace) :
             trace[k].sys \in {"ECAL", "STS"} =>
                 /\ k >= 3
                 /\ trace[1].sys = "IDCS" /\ Found(trace[1])
                 /\ trace[2].sys = "IDCS" /\ Deleted(trace[2])
        /\ \A k \in 1..Len(trace) :
             trace[k].sys = "STS" =>
                 /\ k >= 5
                 /\ trace[3].sys = "ECAL" /\ Found(trace[3])
                 /\ trace[4].sys = "ECAL" /\ Deleted(trace[4])
        /\ (Len(trace) >= 1 /\ ~Found(trace[1])) => Len(trace) = 1

\* clean mode: the removal of a confirmed stray ended at the IDCS lookup,
\* which found no user; no app was asked
C27_Witness ==
    /\ runMode = CLEAN
    /\ lastStep = "cleanidcs"
    /\ Len(trace) = 1
    /\ trace[1].sys = "IDCS"
    /\ Absent(trace[1])
    /\ lastErr # Nil

\* C28: an add run never ends in the panic of a handler that has not sent
\* any request yet, that is, in convertManagerDnToEmail, the first thing
\* addIDCSVBCSUser calls: whatever the manager field of a person is, the
\* handler gets past it.
C28_NormalizingNeverAborts ==
    (runMode = ADD /\ halt = "panic:person") => trace # <<>>

\* C29: no step of an add run sends a delete or an unshare request, no step
\* of a delete run sends a create, update, group patch or share request; the
\* sync request is the one write request either may send.
C29_ModePurity ==
    \A k \in 1..Len(trace) :
        /\ runMode = ADD => trace[k].op \notin {"deleteUser", "unshare"}
        /\ runMode = DELETE =>
               trace[k].op \notin {"createUser", "updateUser", "patchGroup", "share"}
        /\ trace[k].op = "sync" => runMode \in {ADD, DELETE}

\* a delete run over a person tagged for everything went through: deleted
\* in the first loop, unshared in the second
C29_Witness ==
    /\ runMode = DELETE
    /\ halt = "exit0"
    /\ tally1 = 1
    /\ tally2 = 1
    /\ syncStatus = 200
    /\ lastStep = "oce"
    /\ Len(trace) = 2
    /\ trace[2].op = "unshare"
    /\ trace[2].r.status = 200

\* C30: when Decode returns an error for the body of the roster response the
\* run ends there, in the panic of getPeopleFromAria: it does not go on with
\* what Decode left in peopleList.
C30_DecodeFailureIsFatal ==
    decodeErr # Nil => (pc = "halted" /\ halt = "panic:roster")

=============================================================================
